---- MODULE Spec2Model ----
(***************************************************************************)
(* A model of the edugen front-end.                                        *)
(*                                                                         *)
(*   StudentPortal    src/frontend/pages/AssignmentsList.tsx, lines 255-444 *)
(*   AssignmentsList  src/frontend/pages/AssignmentsList.tsx, lines 1-254   *)
(*   API client       src/frontend/services/geminiService.ts               *)
(*   Session store    src/frontend/services/authService.ts                 *)
(*                                                                         *)
(* Strings the code inspects character by character (the identifier input, *)
(* question identifiers, titles, search text) are sequences of             *)
(* one-character strings; strings the code only concatenates (answers) are *)
(* TLA+ strings.  A nullable value is Null (no value) or <<v>>.            *)
(***************************************************************************)
EXTENDS Integers, Sequences, FiniteSets, TLC

VARIABLES
    step,            \* StudentPortal: 1 = load screen, 2 = quiz screen
    assignmentId,    \* StudentPortal: text of the identifier input
    assignmentData,  \* StudentPortal: Null or <<assignment>>
    answers,         \* StudentPortal: the Answer Map, a JS object
    feedback,        \* StudentPortal: Null or <<{score, feedback}>>
    loading,         \* StudentPortal: the loading flag
    inflight,        \* requests sent whose promise is still pending
    localStorage,    \* the browser's persistent storage (keys token, user)
    assignments,     \* AssignmentsList: the in-memory collection
    searchTerm,      \* AssignmentsList: text of the search input
    statusFilter,    \* AssignmentsList: value of the status select
    analyzingId,     \* AssignmentsList: Null or <<id of the item being audited>>
    analysisResult,  \* AssignmentsList: Null or <<{id, text}>>
    audits,          \* audit requests still pending, in the order they were sent
    topic,           \* AssignmentCreator: text of the topic input
    type,            \* AssignmentCreator: the assignment type chosen
    difficulty,      \* AssignmentCreator: the difficulty chosen
    isLoading,       \* AssignmentCreator: the loading flag (loading / isLoading)
    generatedQuestions, \* AssignmentCreator: the preview
    hasGenerated,    \* AssignmentCreator (pages/AssignmentCreator.tsx): preview ready
    savedId,         \* AssignmentCreator (part_001): Null or <<identifier surfaced>>
    uuids,           \* number of identifiers crypto.randomUUID() has produced
    submitted,       \* history: the assignments handed to saveAssignment, in order
    isRegister,      \* Login: the form is in register mode
    location,        \* the browser's address: pathname and hash
    logins,          \* pending calls of login and register, by their stage
    gradedFor,       \* history: the assignment on display when feedback was stored
    savedQuestions,  \* history: the questions saved under the identifier surfaced
    previewFrom,     \* history: the body of the request that produced the preview
    lastOp           \* history: the handler that ran last, what it sent and alerted

portalVars == <<step, assignmentId, assignmentData, answers, feedback, loading>>
listVars == <<assignments, searchTerm, statusFilter>>
auditVars == <<analyzingId, analysisResult, audits>>
creatorVars == <<topic, type, difficulty, isLoading, generatedQuestions,
                 hasGenerated, savedId, uuids, submitted>>
loginVars == <<isRegister, location, logins>>
historyVars == <<gradedFor, savedQuestions, previewFrom>>
vars == <<step, assignmentId, assignmentData, answers, feedback, loading,
          inflight, localStorage, assignments, searchTerm, statusFilter,
          analyzingId, analysisResult, audits,
          topic, type, difficulty, isLoading, generatedQuestions, hasGenerated,
          savedId, uuids, submitted, isRegister, location, logins,
          gradedFor, savedQuestions, previewFrom, lastOp>>

Null == <<>>
Some(v) == <<v>>

(***************************************************************************)
(* Bounds of the model.                                                    *)
(***************************************************************************)
MaxTermLen == 2
MaxItems == 2
MaxAudits == 2
MaxSaves == 2
MaxLogins == 2

(***************************************************************************)
(* Generic helpers.                                                        *)
(***************************************************************************)
SeqsUpTo(S, n) == UNION {[1..k -> S] : k \in 0..n}

Range(s) == {s[i] : i \in 1..Len(s)}

(***************************************************************************)
(* String.prototype.trim: strips leading and trailing white space.         *)
(***************************************************************************)
WhiteSpace == {" "}

RECURSIVE TrimStart(_)
TrimStart(s) ==
    IF s # <<>> /\ Head(s) \in WhiteSpace THEN TrimStart(Tail(s)) ELSE s

RECURSIVE TrimEnd(_)
TrimEnd(s) ==
    IF s # <<>> /\ s[Len(s)] \in WhiteSpace
    THEN TrimEnd(SubSeq(s, 1, Len(s) - 1))
    ELSE s

Trim(s) == TrimEnd(TrimStart(s))

(***************************************************************************)
(* A JavaScript object with string keys, as the sequence of its own        *)
(* properties in OrdinaryOwnPropertyKeys order: keys that are array        *)
(* indices (canonical decimal numerals) first, in ascending numeric order, *)
(* then the other keys in the order they were created.                     *)
(***************************************************************************)
DigitChars == {"0", "1", "2", "3", "4", "5", "6", "7", "8", "9"}

DigitValue(c) ==
    CASE c = "0" -> 0 [] c = "1" -> 1 [] c = "2" -> 2 [] c = "3" -> 3
      [] c = "4" -> 4 [] c = "5" -> 5 [] c = "6" -> 6 [] c = "7" -> 7
      [] c = "8" -> 8 [] c = "9" -> 9

\* Keys of up to nine digits are below 2^32 - 1, the largest array index.
IsArrayIndex(k) ==
    /\ Len(k) \in 1..9
    /\ \A i \in 1..Len(k) : k[i] \in DigitChars
    /\ (Len(k) > 1 => k[1] # "0")

RECURSIVE ArrayIndexValue(_)
ArrayIndexValue(k) ==
    IF k = <<>> THEN 0
    ELSE 10 * ArrayIndexValue(SubSeq(k, 1, Len(k) - 1)) + DigitValue(k[Len(k)])

EmptyObject == <<>>

ObjectKeys(obj) == [i \in 1..Len(obj) |-> obj[i].key]

HasOwn(obj, k) == \E i \in 1..Len(obj) : obj[i].key = k

ObjectGet(obj, k) == obj[CHOOSE i \in 1..Len(obj) : obj[i].key = k].value

\* Number of leading properties of obj that stay ahead of a new key k.
InsertAfter(obj, k) ==
    IF IsArrayIndex(k)
    THEN Cardinality({i \in 1..Len(obj) :
            /\ IsArrayIndex(obj[i].key)
            /\ ArrayIndexValue(obj[i].key) < ArrayIndexValue(k)})
    ELSE Len(obj)

\* obj[k] = v
ObjectSet(obj, k, v) ==
    IF HasOwn(obj, k)
    THEN [i \in 1..Len(obj) |->
            IF obj[i].key = k THEN [key |-> k, value |-> v] ELSE obj[i]]
    ELSE LET n == InsertAfter(obj, k)
         IN  SubSeq(obj, 1, n) \o <<[key |-> k, value |-> v]>>
                \o SubSeq(obj, n + 1, Len(obj))

\* Object.entries(obj)
ObjectEntries(obj) == obj

(***************************************************************************)
(* Session store (authService.ts).                                         *)
(***************************************************************************)
Users == {[id |-> 7, role |-> "student"], [id |-> 8, role |-> "educator"]}

JSONstringify(v) == [json |-> v]
JSONparse(s) == s.json

LoggedOut == [token |-> Null, user |-> Null]

\* The storage after login(email, password) has run to its end for user u.
LoggedIn(u) == [token |-> Some(u.id), user |-> Some(JSONstringify(u))]

SessionStates == {LoggedOut} \cup {LoggedIn(u) : u \in Users}

getCurrentUser ==
    IF localStorage.user # Null THEN Some(JSONparse(localStorage.user[1])) ELSE Null

(***************************************************************************)
(* The backend, seen through getAssignment and POST /student/grade.        *)
(***************************************************************************)
\* Texts typed or pasted into the identifier input: nothing, white space only,
\* the known identifiers bare and with white space around them, an unknown one.
IdInputs ==
    {<<>>, <<" ">>, <<"X">>, <<"Y">>, <<"X", "Y">>, <<" ", "X">>, <<"Y", " ">>,
     <<"Z">>}

AnswerTexts == {"A"}

Question(id, options) == [id |-> id, options |-> options]

\* The assignments the backend knows, by identifier.
Catalog ==
    [k \in {<<"X">>, <<"Y">>, <<"X", "Y">>} |->
        CASE k = <<"X">> ->
               [id |-> k,
                questions |-> <<Question(<<"q", "1">>, <<>>),
                                Question(<<"q", "2">>, <<"A", "B">>)>>]
          [] k = <<"Y">> ->
               [id |-> k,
                questions |-> <<Question(<<"q", "1">>, <<>>),
                                Question(<<"1">>, <<>>)>>]
          [] k = <<"X", "Y">> ->
               [id |-> k, questions |-> <<>>]]

NoBody == [assignment_id |-> <<>>, student_id |-> 0, answer_text |-> ""]

LoadRequest(id) == [kind |-> "getAssignment", id |-> id, body |-> NoBody]

GradeRequest(assignment_id, student_id, answer_text) ==
    [kind |-> "autoGradeSubmission", id |-> <<>>,
     body |-> [assignment_id |-> assignment_id, student_id |-> student_id,
               answer_text |-> answer_text]]

\* getAssignment(id): the assignment, or a rejection for an unknown id.
getAssignment(id) == IF id \in DOMAIN Catalog THEN Some(Catalog[id]) ELSE Null

\* What POST /student/grade may answer.
GradeResponses(body) == {[score |-> 85, feedback |-> "Well done"]}

\* autoGradeSubmission's value when the request fails.
GradeFallback == [score |-> 0, feedback |-> "Error connecting to grading service."]

(***************************************************************************)
(* History of the last handler.                                            *)
(***************************************************************************)
NoAlert == ""

Op(name, sent, alert) ==
    [op |-> name, sent |-> sent, alert |-> alert, before |-> Null, arg |-> Null]

OpReplacing(name, data, ans) ==
    [op |-> name, sent |-> <<>>, alert |-> NoAlert,
     before |-> Some([assignmentData |-> data, answers |-> ans]), arg |-> Null]

\* A handler that ran on arg: the item, or the request whose promise settled.
OpOn(name, arg, sent, alert) ==
    [op |-> name, sent |-> sent, alert |-> alert, before |-> Null, arg |-> Some(arg)]

\* A generation that settled: its request, and the preview it found.
OpSettled(name, request, preview) ==
    [op |-> name, sent |-> <<>>, alert |-> NoAlert, before |-> Some(preview),
     arg |-> Some(request)]

(***************************************************************************)
(* StudentPortal.                                                          *)
(***************************************************************************)
InitPortal ==
    /\ step = 1
    /\ assignmentId = <<>>
    /\ assignmentData = Null
    /\ answers = EmptyObject
    /\ feedback = Null
    /\ loading = FALSE
    /\ inflight = {}
    /\ gradedFor = Null

\* data.questions.forEach(q => initialAnswers[q.id] = "")
RECURSIVE SeedAnswers(_, _)
SeedAnswers(obj, questions) ==
    IF questions = <<>> THEN obj
    ELSE SeedAnswers(ObjectSet(obj, Head(questions).id, ""), Tail(questions))

\* A seeding loop that starts at the second question.
InitialAnswers_SkipFirst(questions) ==
    SeedAnswers(EmptyObject, SubSeq(questions, 2, Len(questions)))

InitialAnswers(questions) == SeedAnswers(EmptyObject, questions)

\* { ...prev }
RECURSIVE ObjectSpread(_, _)
ObjectSpread(target, source) ==
    IF source = <<>> THEN target
    ELSE ObjectSpread(ObjectSet(target, Head(source).key, Head(source).value),
                      Tail(source))

\* array.join(sep) of an array of strings
RECURSIVE Join(_, _)
Join(parts, sep) ==
    IF parts = <<>> THEN ""
    ELSE IF Len(parts) = 1 THEN parts[1]
    ELSE parts[1] \o sep \o Join(Tail(parts), sep)

\* Object.entries(answers).map(([qId, ans], idx) => `Q${idx + 1}: ${ans}`).join("\n\n")
formattedSubmission(ans) ==
    LET entries == ObjectEntries(ans)
    IN  Join([idx \in 1..Len(entries) |->
                "Q" \o ToString(idx) \o ": " \o entries[idx].value], "\n\n")

\* The identifier input of step 1.
setAssignmentId(value) ==
    /\ step = 1
    /\ value # assignmentId
    /\ assignmentId' = value
    /\ lastOp' = Op("setAssignmentId", <<>>, NoAlert)
    /\ UNCHANGED <<step, assignmentData, answers, feedback, loading, inflight,
                   localStorage, listVars,
                   auditVars, creatorVars, loginVars,
                   historyVars>>

\* A Start button that stays enabled while loading.
handleLoadAssignment_WhileLoading ==
    /\ step = 1
    /\ IF assignmentId = <<>>
       THEN /\ lastOp' = Op("handleLoadAssignment", <<>>, "Please enter an ID")
            /\ UNCHANGED <<loading, inflight>>
       ELSE LET request == LoadRequest(Trim(assignmentId))
            IN  /\ loading' = TRUE
                /\ inflight' = inflight \cup {request}
                /\ lastOp' = Op("handleLoadAssignment", <<request>>, NoAlert)
    /\ UNCHANGED <<step, assignmentId, assignmentData, answers, feedback,
                   localStorage, listVars, auditVars, creatorVars, loginVars,
                   historyVars>>

\* handleLoadAssignment without its test for an empty identifier.
handleLoadAssignment_NoEmptyTest ==
    /\ step = 1
    /\ ~loading
    /\ LET request == LoadRequest(Trim(assignmentId))
       IN  /\ loading' = TRUE
           /\ inflight' = inflight \cup {request}
           /\ lastOp' = Op("handleLoadAssignment", <<request>>, NoAlert)
    /\ UNCHANGED <<step, assignmentId, assignmentData, answers, feedback,
                   localStorage, listVars,
                   auditVars, creatorVars, loginVars,
                   historyVars>>

\* The Start button: handleLoadAssignment up to its await.
handleLoadAssignment ==
    /\ step = 1
    /\ ~loading
    /\ IF assignmentId = <<>>
       THEN /\ lastOp' = Op("handleLoadAssignment", <<>>, "Please enter an ID")
            /\ UNCHANGED <<loading, inflight>>
       ELSE LET request == LoadRequest(Trim(assignmentId))
            IN  /\ loading' = TRUE
                /\ inflight' = inflight \cup {request}
                /\ lastOp' = Op("handleLoadAssignment", <<request>>, NoAlert)
    /\ UNCHANGED <<step, assignmentId, assignmentData, answers, feedback,
                   localStorage, listVars,
                   auditVars, creatorVars, loginVars,
                   historyVars>>

\* A load that merges the seeded map with the answers held before.
LoadResolve_Merge(request) ==
    /\ request \in inflight
    /\ request.kind = "getAssignment"
    /\ getAssignment(request.id) # Null
    /\ LET data == getAssignment(request.id)[1]
       IN  /\ assignmentData' = Some(data)
           /\ answers' = ObjectSpread(SeedAnswers(EmptyObject, data.questions), answers)
    /\ step' = 2
    /\ loading' = FALSE
    /\ inflight' = inflight \ {request}
    /\ lastOp' = OpReplacing("LoadResolve", assignmentData, answers)
    /\ UNCHANGED <<assignmentId, feedback, localStorage, listVars,
                   auditVars, creatorVars, loginVars,
                   historyVars>>

\* handleLoadAssignment after its await, getAssignment fulfilled.
LoadResolve(request) ==
    /\ request \in inflight
    /\ request.kind = "getAssignment"
    /\ getAssignment(request.id) # Null
    /\ LET data == getAssignment(request.id)[1]
       IN  /\ assignmentData' = Some(data)
           /\ answers' = InitialAnswers(data.questions)
    /\ step' = 2
    /\ loading' = FALSE
    /\ inflight' = inflight \ {request}
    /\ lastOp' = OpReplacing("LoadResolve", assignmentData, answers)
    /\ UNCHANGED <<assignmentId, feedback, localStorage, listVars,
                   auditVars, creatorVars, loginVars,
                   historyVars>>

\* handleLoadAssignment after its await, getAssignment rejected (an unknown
\* identifier, or a failed request).
LoadReject(request) ==
    /\ request \in inflight
    /\ request.kind = "getAssignment"
    /\ loading' = FALSE
    /\ inflight' = inflight \ {request}
    /\ lastOp' = Op("LoadReject", <<>>, "Assignment not found! Check the ID.")
    /\ UNCHANGED <<step, assignmentId, assignmentData, answers, feedback,
                   localStorage, listVars,
                   auditVars, creatorVars, loginVars,
                   historyVars>>

\* The values an answer input of question q can produce.
InputValues(q) ==
    IF q.options # <<>> THEN Range(q.options) ELSE AnswerTexts \cup {""}

handleAnswerChange(questionId, value) ==
    /\ answers' = ObjectSet(ObjectSpread(EmptyObject, answers), questionId, value)
    /\ lastOp' = Op("handleAnswerChange", <<>>, NoAlert)
    /\ UNCHANGED <<step, assignmentId, assignmentData, feedback, loading,
                   inflight, localStorage, listVars,
                   auditVars, creatorVars, loginVars,
                   historyVars>>

\* Answer inputs that key the map by the question's position.
AnswerInput_ByPosition ==
    /\ step = 2
    /\ assignmentData # Null
    /\ \E i \in 1..Len(assignmentData[1].questions) :
         LET q == assignmentData[1].questions[i]
         IN  \E value \in InputValues(q) : handleAnswerChange(<<ToString(i)>>, value)

\* The radio buttons and text areas of step 2.
AnswerInput ==
    /\ step = 2
    /\ assignmentData # Null
    /\ \E i \in 1..Len(assignmentData[1].questions) :
         LET q == assignmentData[1].questions[i]
         IN  \E value \in InputValues(q) : handleAnswerChange(q.id, value)

\* handleSubmit raising the loading flag before it looks for the user.
handleSubmit_LoadingFirst ==
    /\ step = 2
    /\ assignmentData # Null
    /\ ~loading
    /\ loading' = TRUE
    /\ LET user == getCurrentUser
       IN  IF user = Null
           THEN /\ lastOp' = Op("handleSubmit", <<>>, "Please login first")
                /\ UNCHANGED inflight
           ELSE LET request == GradeRequest(assignmentId, user[1].id,
                                            formattedSubmission(answers))
                IN  /\ inflight' = inflight \cup {request}
                    /\ lastOp' = Op("handleSubmit", <<request>>, NoAlert)
    /\ UNCHANGED <<step, assignmentId, assignmentData, answers, feedback,
                   localStorage, listVars,
                   auditVars, creatorVars, loginVars,
                   historyVars>>

\* The Submit button: handleSubmit up to its await.
handleSubmit ==
    /\ step = 2
    /\ assignmentData # Null
    /\ ~loading
    /\ LET user == getCurrentUser
       IN  IF user = Null
           THEN /\ lastOp' = Op("handleSubmit", <<>>, "Please login first")
                /\ UNCHANGED <<loading, inflight>>
           ELSE LET request == GradeRequest(assignmentId, user[1].id,
                                            formattedSubmission(answers))
                IN  /\ loading' = TRUE
                    /\ inflight' = inflight \cup {request}
                    /\ lastOp' = Op("handleSubmit", <<request>>, NoAlert)
    /\ UNCHANGED <<step, assignmentId, assignmentData, answers, feedback,
                   localStorage, listVars,
                   auditVars, creatorVars, loginVars,
                   historyVars>>

\* A grading answer stored without the finally block of handleSubmit.
GradeResolve_NoFinally(request) ==
    /\ request \in inflight
    /\ request.kind = "autoGradeSubmission"
    /\ \E result \in GradeResponses(request.body) : feedback' = Some(result)
    /\ inflight' = inflight \ {request}
    /\ lastOp' = Op("GradeResolve", <<>>, NoAlert)
    /\ gradedFor' = assignmentData
    /\ UNCHANGED <<step, assignmentId, assignmentData, answers, loading,
                   localStorage, listVars, auditVars, creatorVars, loginVars,
                   savedQuestions, previewFrom>>

\* handleSubmit after its await, the grading request answered.
GradeResolve(request) ==
    /\ request \in inflight
    /\ request.kind = "autoGradeSubmission"
    /\ \E result \in GradeResponses(request.body) : feedback' = Some(result)
    /\ loading' = FALSE
    /\ inflight' = inflight \ {request}
    /\ lastOp' = Op("GradeResolve", <<>>, NoAlert)
    /\ gradedFor' = assignmentData
    /\ UNCHANGED <<step, assignmentId, assignmentData, answers,
                   localStorage, listVars,
                   auditVars, creatorVars, loginVars,
                   savedQuestions, previewFrom>>

\* autoGradeSubmission letting the error through: handleSubmit's catch alerts.
GradeReject_Raises(request) ==
    /\ request \in inflight
    /\ request.kind = "autoGradeSubmission"
    /\ loading' = FALSE
    /\ inflight' = inflight \ {request}
    /\ lastOp' = Op("GradeReject", <<>>, "Error submitting assignment.")
    /\ UNCHANGED <<step, assignmentId, assignmentData, answers, feedback,
                   localStorage, listVars, auditVars, creatorVars, loginVars,
                   historyVars>>

\* handleSubmit after its await, the grading request failed:
\* autoGradeSubmission catches the error and returns its fallback.
GradeReject(request) ==
    /\ request \in inflight
    /\ request.kind = "autoGradeSubmission"
    /\ feedback' = Some(GradeFallback)
    /\ loading' = FALSE
    /\ inflight' = inflight \ {request}
    /\ lastOp' = Op("GradeReject", <<>>, NoAlert)
    /\ gradedFor' = assignmentData
    /\ UNCHANGED <<step, assignmentId, assignmentData, answers,
                   localStorage, listVars,
                   auditVars, creatorVars, loginVars,
                   savedQuestions, previewFrom>>

\* The Exit link of step 2.
Exit ==
    /\ step = 2
    /\ assignmentData # Null
    /\ step' = 1
    /\ lastOp' = Op("Exit", <<>>, NoAlert)
    /\ UNCHANGED <<assignmentId, assignmentData, answers, feedback, loading,
                   inflight, localStorage, listVars,
                   auditVars, creatorVars, loginVars,
                   historyVars>>

FeedbackPanelShown == step = 2 /\ assignmentData # Null /\ feedback # Null

\* The close button of the grading report.
DismissFeedback ==
    /\ FeedbackPanelShown
    /\ feedback' = Null
    /\ lastOp' = Op("DismissFeedback", <<>>, NoAlert)
    /\ gradedFor' = Null
    /\ UNCHANGED <<step, assignmentId, assignmentData, answers, loading,
                   inflight, localStorage, listVars,
                   auditVars, creatorVars, loginVars,
                   savedQuestions, previewFrom>>

\* A reset that only closes the report and returns to step 1.
BackToDashboard_StepOnly ==
    /\ FeedbackPanelShown
    /\ step' = 1
    /\ feedback' = Null
    /\ lastOp' = Op("BackToDashboard", <<>>, NoAlert)
    /\ gradedFor' = Null
    /\ UNCHANGED <<assignmentId, assignmentData, answers, loading, inflight,
                   localStorage, listVars,
                   auditVars, creatorVars, loginVars,
                   savedQuestions, previewFrom>>

\* "Back to Dashboard": window.location.reload() builds the component anew
\* and abandons the page's pending promises; the storage survives.
BackToDashboard ==
    /\ FeedbackPanelShown
    /\ step' = 1
    /\ assignmentId' = <<>>
    /\ assignmentData' = Null
    /\ answers' = EmptyObject
    /\ feedback' = Null
    /\ loading' = FALSE
    /\ inflight' = {}
    /\ lastOp' = Op("BackToDashboard", <<>>, NoAlert)
    /\ gradedFor' = Null
    /\ UNCHANGED <<localStorage, listVars,
                   auditVars, creatorVars, loginVars,
                   savedQuestions, previewFrom>>

(***************************************************************************)
(* AssignmentsList.                                                        *)
(***************************************************************************)
\* The fields of an Assignment the list's handlers read.
MOCK_ASSIGNMENTS ==
    <<
     [id |-> "1",
      title |-> <<"I", "n", "t", "r", "o", "d", "u", "c", "t", "i", "o", "n",
                 " ", "t", "o", " ", "P", "h", "o", "t", "o", "s", "y", "n",
                 "t", "h", "e", "s", "i", "s">>,
      subject |-> <<"B", "i", "o", "l", "o", "g", "y", " ", "1", "0", "1">>,
      status |-> "Published"],
     [id |-> "2",
      title |-> <<"H", "a", "m", "l", "e", "t", ":", " ", "T", "h", "e", "m",
                 "e", "s", " ", "&", " ", "M", "o", "t", "i", "f", "s">>,
      subject |-> <<"E", "n", "g", "l", "i", "s", "h", " ", "L", "i", "t">>,
      status |-> "Draft"],
     [id |-> "3",
      title |-> <<"L", "i", "n", "e", "a", "r", " ", "A", "l", "g", "e", "b",
                 "r", "a", " ", "M", "i", "d", "t", "e", "r", "m">>,
      subject |-> <<"M", "a", "t", "h", " ", "2", "0", "2">>,
      status |-> "Archived"]
    >>

UpperCase == <<"A", "B", "C", "D", "E", "F", "G", "H", "I", "J", "K", "L", "M",
               "N", "O", "P", "Q", "R", "S", "T", "U", "V", "W", "X", "Y", "Z">>
LowerCase == <<"a", "b", "c", "d", "e", "f", "g", "h", "i", "j", "k", "l", "m",
               "n", "o", "p", "q", "r", "s", "t", "u", "v", "w", "x", "y", "z">>

\* String.prototype.toLowerCase on the Basic Latin letters.
LowerChar(c) ==
    IF \E i \in 1..Len(UpperCase) : UpperCase[i] = c
    THEN LowerCase[CHOOSE i \in 1..Len(UpperCase) : UpperCase[i] = c]
    ELSE c

toLowerCase(s) == [i \in 1..Len(s) |-> LowerChar(s[i])]

\* String.prototype.indexOf(t, k - 1) + 1: the first position from k on at
\* which t occurs in s, 0 when there is none.
RECURSIVE IndexOfFrom(_, _, _)
IndexOfFrom(s, t, k) ==
    IF k + Len(t) - 1 > Len(s) THEN 0
    ELSE IF SubSeq(s, k, k + Len(t) - 1) = t THEN k
    ELSE IndexOfFrom(s, t, k + 1)

\* String.prototype.includes
includes(s, t) == IndexOfFrom(s, t, 1) # 0

\* A search that lower-cases the item's fields but not the search text.
matchesSearch_TermAsTyped(a, term) ==
    \/ includes(toLowerCase(a.title), term)
    \/ includes(toLowerCase(a.subject), term)

matchesSearch(a, term) ==
    \/ includes(toLowerCase(a.title), toLowerCase(term))
    \/ includes(toLowerCase(a.subject), toLowerCase(term))

matchesStatus(a, filter) == filter = "All" \/ a.status = filter

\* Array.prototype.filter with the predicate of filteredAssignments.
RECURSIVE FilterAssignments(_, _, _)
FilterAssignments(items, term, filter) ==
    IF items = <<>> THEN <<>>
    ELSE LET a == Head(items)
             rest == FilterAssignments(Tail(items), term, filter)
         IN  IF matchesSearch(a, term) /\ matchesStatus(a, filter)
             THEN <<a>> \o rest
             ELSE rest

filteredAssignments == FilterAssignments(assignments, searchTerm, statusFilter)

InitList ==
    /\ assignments = MOCK_ASSIGNMENTS
    /\ searchTerm = <<>>
    /\ statusFilter = "All"

SearchChars == {"a", "H", "t"}

SearchTerms == SeqsUpTo(SearchChars, MaxTermLen)

\* The options of the status select.
StatusOptions == {"All", "Draft", "Published", "Archived"}

\* The search input.
setSearchTerm(value) ==
    /\ searchTerm' = value
    /\ lastOp' = Op("setSearchTerm", <<>>, NoAlert)
    /\ UNCHANGED <<assignments, statusFilter, portalVars, inflight, localStorage,
                   auditVars, creatorVars, loginVars,
                   historyVars>>

\* The status select.
setStatusFilter(value) ==
    /\ statusFilter' = value
    /\ lastOp' = Op("setStatusFilter", <<>>, NoAlert)
    /\ UNCHANGED <<assignments, searchTerm, portalVars, inflight, localStorage,
                   auditVars, creatorVars, loginVars,
                   historyVars>>

\* A "Clear filters" that resets the search text only.
ClearFilters_SearchOnly ==
    /\ Len(filteredAssignments) = 0
    /\ searchTerm' = <<>>
    /\ lastOp' = Op("ClearFilters", <<>>, NoAlert)
    /\ UNCHANGED <<assignments, statusFilter, portalVars, inflight, localStorage,
                   auditVars, creatorVars, loginVars,
                   historyVars>>

\* The "Clear filters" link, rendered when the filtered view is empty.
ClearFilters ==
    /\ Len(filteredAssignments) = 0
    /\ searchTerm' = <<>>
    /\ statusFilter' = "All"
    /\ lastOp' = Op("ClearFilters", <<>>, NoAlert)
    /\ UNCHANGED <<assignments, portalVars, inflight, localStorage,
                   auditVars, creatorVars, loginVars,
                   historyVars>>

\* prev.filter(a => a.id !== id)
RECURSIVE WithoutId(_, _)
WithoutId(items, id) ==
    IF items = <<>> THEN <<>>
    ELSE IF Head(items).id # id THEN <<Head(items)>> \o WithoutId(Tail(items), id)
    ELSE WithoutId(Tail(items), id)

\* A delete that does not wait for the answer of confirm().
deleteAssignment_Unasked(id, confirmed) ==
    /\ assignments' = WithoutId(assignments, id)
    /\ lastOp' = OpOn("deleteAssignment", [id |-> id, confirmed |-> confirmed],
                       <<>>, NoAlert)
    /\ UNCHANGED <<searchTerm, statusFilter, portalVars, inflight, localStorage,
                   auditVars, creatorVars, loginVars,
                   historyVars>>

\* The Delete button of a listed item; confirmed is the answer to confirm().
deleteAssignment(id, confirmed) ==
    /\ assignments' = IF confirmed THEN WithoutId(assignments, id) ELSE assignments
    /\ lastOp' = OpOn("deleteAssignment", [id |-> id, confirmed |-> confirmed],
                       <<>>, NoAlert)
    /\ UNCHANGED <<searchTerm, statusFilter, portalVars, inflight, localStorage,
                   auditVars, creatorVars, loginVars,
                   historyVars>>

DeleteButton ==
    \E i \in 1..Len(filteredAssignments) : \E confirmed \in BOOLEAN :
        deleteAssignment(filteredAssignments[i].id, confirmed)

(***************************************************************************)
(* AssignmentsList: the AI audit of a listed item.                         *)
(***************************************************************************)
InitAudit ==
    /\ analyzingId = Null
    /\ analysisResult = Null
    /\ audits = <<>>

\* What POST /assignments/{id}/analyze may answer as response.data.text.
AuditTexts(id) == {"Audit of " \o id}

\* analyzeAssignment's value when the request fails.
AuditFallback == "Could not perform audit at this time."

RemoveAt(s, k) == SubSeq(s, 1, k - 1) \o SubSeq(s, k + 1, Len(s))

Completed(id, k) == [id |-> id, position |-> k]

AnalyzeRequest(id) == [kind |-> "analyzeAssignment", id |-> id]

\* handleAnalyze up to its await.
handleAnalyze(assignment) ==
    /\ Len(audits) < MaxAudits
    /\ analyzingId' = Some(assignment.id)
    /\ analysisResult' = Null
    /\ audits' = Append(audits, assignment.id)
    /\ lastOp' = [op |-> "handleAnalyze", sent |-> <<AnalyzeRequest(assignment.id)>>,
                   alert |-> NoAlert, before |-> Some(audits),
                   arg |-> Some(assignment.id)]
    /\ UNCHANGED <<listVars, portalVars, inflight, localStorage, creatorVars,
                   loginVars,
                   historyVars>>

\* The AI Audit button of a listed item, disabled while analyzingId is the item.
AuditButton ==
    \E i \in 1..Len(filteredAssignments) :
        /\ analyzingId # Some(filteredAssignments[i].id)
        /\ handleAnalyze(filteredAssignments[i])

\* An audit whose answer is stored only while its item is the one being audited.
AnalyzeResolve_LatestOnly(k) ==
    /\ k \in 1..Len(audits)
    /\ \E text \in AuditTexts(audits[k]) :
         analysisResult' = IF analyzingId = Some(audits[k])
                           THEN Some([id |-> audits[k], text |-> text])
                           ELSE analysisResult
    /\ analyzingId' = Null
    /\ audits' = RemoveAt(audits, k)
    /\ lastOp' = OpOn("AnalyzeResolve", Completed(audits[k], k), <<>>, NoAlert)
    /\ UNCHANGED <<listVars, portalVars, inflight, localStorage, creatorVars,
                   loginVars,
                   historyVars>>

\* handleAnalyze after its await, the k-th pending audit answered.
AnalyzeResolve(k) ==
    /\ k \in 1..Len(audits)
    /\ \E text \in AuditTexts(audits[k]) :
         analysisResult' = Some([id |-> audits[k], text |-> text])
    /\ analyzingId' = Null
    /\ audits' = RemoveAt(audits, k)
    /\ lastOp' = OpOn("AnalyzeResolve", Completed(audits[k], k), <<>>, NoAlert)
    /\ UNCHANGED <<listVars, portalVars, inflight, localStorage, creatorVars,
                   loginVars,
                   historyVars>>

\* analyzeAssignment letting the error through: handleAnalyze's catch logs it.
AnalyzeReject_Raises(k) ==
    /\ k \in 1..Len(audits)
    /\ analyzingId' = Null
    /\ audits' = RemoveAt(audits, k)
    /\ lastOp' = OpOn("AnalyzeReject", Completed(audits[k], k), <<>>, NoAlert)
    /\ UNCHANGED <<analysisResult, listVars, portalVars, inflight, localStorage,
                   creatorVars, loginVars,
                   historyVars>>

\* handleAnalyze after its await, the k-th pending audit failed:
\* analyzeAssignment catches the error and returns its fallback.
AnalyzeReject(k) ==
    /\ k \in 1..Len(audits)
    /\ analysisResult' = Some([id |-> audits[k], text |-> AuditFallback])
    /\ analyzingId' = Null
    /\ audits' = RemoveAt(audits, k)
    /\ lastOp' = OpOn("AnalyzeReject", Completed(audits[k], k), <<>>, NoAlert)
    /\ UNCHANGED <<listVars, portalVars, inflight, localStorage, creatorVars,
                   loginVars,
                   historyVars>>

\* The result panel is rendered under the listed item the result is keyed by.
PanelShown(id) ==
    /\ analysisResult # Null
    /\ analysisResult[1].id = id
    /\ \E i \in 1..Len(filteredAssignments) : filteredAssignments[i].id = id

\* The Dismiss link of the result panel.
DismissAnalysis ==
    /\ analysisResult # Null
    /\ PanelShown(analysisResult[1].id)
    /\ analysisResult' = Null
    /\ lastOp' = Op("DismissAnalysis", <<>>, NoAlert)
    /\ UNCHANGED <<analyzingId, audits, listVars, portalVars, inflight,
                   localStorage, creatorVars, loginVars,
                   historyVars>>

(***************************************************************************)
(* AssignmentCreator (pages/AssignmentCreator.tsx): generating questions.  *)
(***************************************************************************)
\* enum AssignmentType and enum Difficulty
AssignmentType == {"Multiple Choice", "Written Response", "Project Based"}

Difficulty == {"Elementary", "Intermediate", "Advanced"}

\* What the teacher may type as topic.
Topics == {<<>>, <<" ">>, <<"T">>, <<"U">>}

InitCreator ==
    /\ topic = <<>>
    /\ type = "Multiple Choice"
    /\ difficulty = "Intermediate"
    /\ isLoading = FALSE
    /\ generatedQuestions = <<>>
    /\ hasGenerated = FALSE
    /\ savedId = Null
    /\ uuids = 0
    /\ submitted = <<>>
    /\ savedQuestions = Null
    /\ previewFrom = Null

GenerateRequest(t, ty, d) ==
    [kind |-> "generateContent", id |-> <<>>,
     body |-> [topic |-> t, type |-> ty, difficulty |-> d]]

GeneratedQuestion(id, body) == [id |-> id, text |-> body.topic, type |-> body.type]

\* What POST /generate may answer: questions about the requested topic.
GenerateResponses(body) ==
    {<<GeneratedQuestion("g1", body), GeneratedQuestion("g2", body)>>}

setTopic(value) ==
    /\ value # topic
    /\ topic' = value
    /\ lastOp' = Op("setTopic", <<>>, NoAlert)
    /\ UNCHANGED <<type, difficulty, isLoading, generatedQuestions, hasGenerated,
                   savedId, uuids, submitted, portalVars, inflight, localStorage,
                   listVars, auditVars, loginVars,
                   historyVars>>

setType(value) ==
    /\ value # type
    /\ type' = value
    /\ lastOp' = Op("setType", <<>>, NoAlert)
    /\ UNCHANGED <<topic, difficulty, isLoading, generatedQuestions, hasGenerated,
                   savedId, uuids, submitted, portalVars, inflight, localStorage,
                   listVars, auditVars, loginVars,
                   historyVars>>

setDifficulty(value) ==
    /\ value # difficulty
    /\ difficulty' = value
    /\ lastOp' = Op("setDifficulty", <<>>, NoAlert)
    /\ UNCHANGED <<topic, type, isLoading, generatedQuestions, hasGenerated,
                   savedId, uuids, submitted, portalVars, inflight, localStorage,
                   listVars, auditVars, loginVars,
                   historyVars>>

\* handleGenerate up to its await.
handleGenerate ==
    /\ IF Trim(topic) = <<>>
       THEN /\ lastOp' = Op("handleGenerate", <<>>, NoAlert)
            /\ UNCHANGED <<isLoading, hasGenerated, inflight>>
       ELSE /\ isLoading' = TRUE
            /\ hasGenerated' = FALSE
            /\ inflight' = inflight \cup {GenerateRequest(topic, type, difficulty)}
            /\ lastOp' = Op("handleGenerate",
                            <<GenerateRequest(topic, type, difficulty)>>, NoAlert)
    /\ UNCHANGED <<topic, type, difficulty, generatedQuestions, savedId, uuids,
                   submitted, portalVars, localStorage, listVars, auditVars,
                   loginVars,
                   historyVars>>

\* A Generate button that stays enabled while loading.
GenerateButton_WhileLoading ==
    /\ topic # <<>>
    /\ handleGenerate

\* The Generate button, disabled while loading or without a topic.
GenerateButton ==
    /\ ~isLoading
    /\ topic # <<>>
    /\ handleGenerate

\* A generation whose answer is added to the preview.
GenerateResolve_Appends(request) ==
    /\ request \in inflight
    /\ request.kind = "generateContent"
    /\ \E questions \in GenerateResponses(request.body) :
         generatedQuestions' = generatedQuestions \o questions
    /\ isLoading' = FALSE
    /\ hasGenerated' = TRUE
    /\ inflight' = inflight \ {request}
    /\ lastOp' = OpSettled("GenerateResolve", request, generatedQuestions)
    /\ previewFrom' = Some(request.body)
    /\ UNCHANGED <<topic, type, difficulty, savedId, uuids, submitted, portalVars,
                   localStorage, listVars, auditVars, loginVars,
                   gradedFor, savedQuestions>>

\* handleGenerate after its await, the request answered.
GenerateResolve(request) ==
    /\ request \in inflight
    /\ request.kind = "generateContent"
    /\ \E questions \in GenerateResponses(request.body) :
         generatedQuestions' = questions
    /\ isLoading' = FALSE
    /\ hasGenerated' = TRUE
    /\ inflight' = inflight \ {request}
    /\ lastOp' = OpSettled("GenerateResolve", request, generatedQuestions)
    /\ previewFrom' = Some(request.body)
    /\ UNCHANGED <<topic, type, difficulty, savedId, uuids, submitted, portalVars,
                   localStorage, listVars, auditVars, loginVars,
                   gradedFor, savedQuestions>>

\* generateContent letting the error through: handleGenerate stops at its await.
GenerateReject_Raises(request) ==
    /\ request \in inflight
    /\ request.kind = "generateContent"
    /\ inflight' = inflight \ {request}
    /\ lastOp' = OpSettled("GenerateReject", request, generatedQuestions)
    /\ UNCHANGED <<topic, type, difficulty, isLoading, generatedQuestions,
                   hasGenerated, savedId, uuids, submitted, portalVars,
                   localStorage, listVars, auditVars, loginVars,
                   historyVars>>

\* handleGenerate after its await, the request failed: generateContent catches
\* the error and returns [].
GenerateReject(request) ==
    /\ request \in inflight
    /\ request.kind = "generateContent"
    /\ generatedQuestions' = <<>>
    /\ isLoading' = FALSE
    /\ hasGenerated' = TRUE
    /\ inflight' = inflight \ {request}
    /\ lastOp' = OpSettled("GenerateReject", request, generatedQuestions)
    /\ previewFrom' = Some(request.body)
    /\ UNCHANGED <<topic, type, difficulty, savedId, uuids, submitted, portalVars,
                   localStorage, listVars, auditVars, loginVars,
                   gradedFor, savedQuestions>>

(***************************************************************************)
(* AssignmentCreator with saving (unnamed/part_001).                       *)
(***************************************************************************)
\* The options of the type and difficulty selects.
TypeOptions == {"MCQ", "WRITTEN"}

DifficultyOptions == {"Easy", "Medium", "Hard"}

\* The topics the teacher enters in part_001.
TopicInputs == {<<>>, <<"T">>}

InitCreator_part001 ==
    /\ topic = <<>>
    /\ type = "MCQ"
    /\ difficulty = "Medium"
    /\ isLoading = FALSE
    /\ generatedQuestions = <<>>
    /\ hasGenerated = FALSE
    /\ savedId = Null
    /\ uuids = 0
    /\ submitted = <<>>
    /\ savedQuestions = Null
    /\ previewFrom = Null

\* handleGenerate of part_001 up to its await.
handleGenerate_part001 ==
    /\ isLoading' = TRUE
    /\ savedId' = Null
    /\ inflight' = inflight \cup {GenerateRequest(topic, type, difficulty)}
    /\ lastOp' = Op("handleGenerate",
                    <<GenerateRequest(topic, type, difficulty)>>, NoAlert)
    /\ savedQuestions' = Null
    /\ UNCHANGED <<topic, type, difficulty, generatedQuestions, hasGenerated,
                   uuids, submitted, portalVars, localStorage, listVars,
                   auditVars, loginVars,
                   gradedFor, previewFrom>>

\* The Generate Questions button, disabled while loading or without a topic.
GenerateButton_part001 ==
    /\ ~isLoading
    /\ topic # <<>>
    /\ handleGenerate_part001

\* handleGenerate of part_001 after its await; a failed request yields [].
GenerateSettle_part001(request) ==
    /\ request \in inflight
    /\ request.kind = "generateContent"
    /\ \E questions \in GenerateResponses(request.body) \cup {<<>>} :
         generatedQuestions' = questions
    /\ isLoading' = FALSE
    /\ inflight' = inflight \ {request}
    /\ lastOp' = OpOn("GenerateSettle", request, <<>>, NoAlert)
    /\ previewFrom' = Some(request.body)
    /\ UNCHANGED <<topic, type, difficulty, hasGenerated, savedId, uuids,
                   submitted, portalVars, localStorage, listVars, auditVars,
                   loginVars,
                   gradedFor, savedQuestions>>

\* The characters of a typed text as one string.
Text(chars) == Join(chars, "")

\* crypto.randomUUID(): a value no earlier call returned.
randomUUID == uuids + 1

\* The assignment object handleSave builds.
NewAssignment(id) ==
    [id |-> id,
     title |-> Text(topic) \o " - " \o difficulty \o " (" \o type \o ")",
     subject |-> "General",
     topic |-> topic,
     type |-> type,
     difficulty |-> difficulty,
     questions |-> generatedQuestions,
     status |-> "Published"]

SaveRequest(assignment) ==
    [kind |-> "saveAssignment", id |-> <<>>, body |-> assignment]

\* A save that keeps the identifier already surfaced, when there is one.
handleSave_ReuseSavedId ==
    /\ uuids < MaxSaves
    /\ IF generatedQuestions = <<>>
       THEN /\ lastOp' = Op("handleSave", <<>>, NoAlert)
            /\ UNCHANGED <<inflight, uuids, submitted>>
       ELSE LET assignment == NewAssignment(IF savedId # Null THEN savedId[1]
                                            ELSE randomUUID)
            IN  /\ uuids' = uuids + 1
                /\ submitted' = Append(submitted, assignment.id)
                /\ inflight' = inflight \cup {SaveRequest(assignment)}
                /\ lastOp' = Op("handleSave", <<SaveRequest(assignment)>>, NoAlert)
    /\ UNCHANGED <<topic, type, difficulty, isLoading, generatedQuestions,
                   hasGenerated, savedId, portalVars, localStorage, listVars,
                   auditVars, loginVars,
                   historyVars>>

\* handleSave up to its await.
handleSave ==
    /\ uuids < MaxSaves
    /\ IF generatedQuestions = <<>>
       THEN /\ lastOp' = Op("handleSave", <<>>, NoAlert)
            /\ UNCHANGED <<inflight, uuids, submitted>>
       ELSE LET assignment == NewAssignment(randomUUID)
            IN  /\ uuids' = uuids + 1
                /\ submitted' = Append(submitted, assignment.id)
                /\ inflight' = inflight \cup {SaveRequest(assignment)}
                /\ lastOp' = Op("handleSave", <<SaveRequest(assignment)>>, NoAlert)
    /\ UNCHANGED <<topic, type, difficulty, isLoading, generatedQuestions,
                   hasGenerated, savedId, portalVars, localStorage, listVars,
                   auditVars, loginVars,
                   historyVars>>

\* A save that surfaces the identifier of a freshly built assignment.
SaveResolve_FreshId(request) ==
    /\ request \in inflight
    /\ request.kind = "saveAssignment"
    /\ savedId' = Some(NewAssignment(randomUUID).id)
    /\ inflight' = inflight \ {request}
    /\ lastOp' = OpOn("SaveResolve", request, <<>>, "Assignment Saved Successfully!")
    /\ savedQuestions' = Some(NewAssignment(randomUUID).questions)
    /\ UNCHANGED <<topic, type, difficulty, isLoading, generatedQuestions,
                   hasGenerated, uuids, submitted, portalVars, localStorage,
                   listVars, auditVars, loginVars,
                   gradedFor, previewFrom>>

\* handleSave after its await, the assignment stored.
SaveResolve(request) ==
    /\ request \in inflight
    /\ request.kind = "saveAssignment"
    /\ savedId' = Some(request.body.id)
    /\ inflight' = inflight \ {request}
    /\ lastOp' = OpOn("SaveResolve", request, <<>>, "Assignment Saved Successfully!")
    /\ savedQuestions' = Some(request.body.questions)
    /\ UNCHANGED <<topic, type, difficulty, isLoading, generatedQuestions,
                   hasGenerated, uuids, submitted, portalVars, localStorage,
                   listVars, auditVars, loginVars,
                   gradedFor, previewFrom>>

\* handleSave after its await, the request failed: saveAssignment lets the
\* error through to handleSave's catch.
SaveReject(request) ==
    /\ request \in inflight
    /\ request.kind = "saveAssignment"
    /\ inflight' = inflight \ {request}
    /\ lastOp' = OpOn("SaveReject", request, <<>>, "Error saving assignment")
    /\ UNCHANGED <<topic, type, difficulty, isLoading, generatedQuestions,
                   hasGenerated, savedId, uuids, submitted, portalVars,
                   localStorage, listVars, auditVars, loginVars,
                   historyVars>>

(***************************************************************************)
(* Login view and authService: register, login, logout.                    *)
(***************************************************************************)
\* The browser location: the path of the document and the hash HashRouter reads.
AtRoute(hash) == [pathname |-> "/", hash |-> hash]

\* The route HashRouter matches: the hash, "/" when there is none.
Route == IF location.hash = "" THEN "/" ELSE location.hash

\* The view App renders for the route.
View == IF Route = "/login" THEN "Login" ELSE "MainLayout"

InitLogin ==
    /\ isRegister = FALSE
    /\ location = AtRoute("/login")
    /\ logins = <<>>

\* A submission of the form that waits for the backend.
Pending(mode, stage, user) == [mode |-> mode, stage |-> stage, user |-> user]

\* err.response?.data?.detail of a failed request, when the backend gave one.
ErrorDetails == {Null, Some("Incorrect email or password")}

ErrorAlert(detail) == "Error: " \o (IF detail # Null THEN detail[1] ELSE "Login failed")

\* The toggle between login and registration mode.
ToggleRegister ==
    /\ View = "Login"
    /\ isRegister' = ~isRegister
    /\ lastOp' = Op("ToggleRegister", <<>>, NoAlert)
    /\ UNCHANGED <<location, logins, localStorage, portalVars, inflight, listVars,
                   auditVars, creatorVars,
                   historyVars>>

\* Opening #/login: the Login view is mounted anew.
OpenLogin ==
    /\ View # "Login"
    /\ location' = [location EXCEPT !.hash = "/login"]
    /\ isRegister' = FALSE
    /\ lastOp' = Op("OpenLogin", <<>>, NoAlert)
    /\ UNCHANGED <<logins, localStorage, portalVars, inflight, listVars,
                   auditVars, creatorVars,
                   historyVars>>

\* The routes rendered inside MainLayout.
MainRoutes == {"/", "/create", "/assignments", "/student-portal", "/analytics"}

\* Addresses a visitor opens: the routes of MainLayout and one App does not know.
PathInputs == MainRoutes \cup {"/nowhere"}

\* Opening #path: a route of MainLayout is rendered, any other path is
\* replaced by /login, where the Login view is mounted anew.
OpenPath(path) ==
    /\ path # Route
    /\ location' = [location EXCEPT
                       !.hash = IF path \in MainRoutes THEN path ELSE "/login"]
    /\ isRegister' = IF path \in MainRoutes THEN isRegister ELSE FALSE
    /\ lastOp' = OpOn("OpenPath", path, <<>>, NoAlert)
    /\ UNCHANGED <<logins, localStorage, portalVars, inflight, listVars,
                   auditVars, creatorVars, historyVars>>

\* Login's handleSubmit up to its first await, with the credentials of user u.
Login_handleSubmit(u) ==
    /\ View = "Login"
    /\ Len(logins) < MaxLogins
    /\ logins' = Append(logins, IF isRegister THEN Pending("register", "register", u)
                                ELSE Pending("login", "token", u))
    /\ lastOp' = OpOn("Login.handleSubmit", u, <<>>, NoAlert)
    /\ UNCHANGED <<isRegister, location, localStorage, portalVars, inflight,
                   listVars, auditVars, creatorVars,
                   historyVars>>

\* register() answered: alert, then back to login mode.
RegisterResolve(k) ==
    /\ k \in 1..Len(logins)
    /\ logins[k].mode = "register"
    /\ isRegister' = FALSE
    /\ logins' = RemoveAt(logins, k)
    /\ lastOp' = OpOn("RegisterResolve", logins[k], <<>>, "Registered! Now log in.")
    /\ UNCHANGED <<location, localStorage, portalVars, inflight, listVars,
                   auditVars, creatorVars,
                   historyVars>>

\* login(): POST /token answered, the token is stored and /users/me is asked.
LoginTokenResolve(k) ==
    /\ k \in 1..Len(logins)
    /\ logins[k].mode = "login"
    /\ logins[k].stage = "token"
    /\ localStorage' = [localStorage EXCEPT !.token = Some(logins[k].user.id)]
    /\ logins' = [logins EXCEPT ![k].stage = "user"]
    /\ lastOp' = OpOn("LoginTokenResolve", logins[k], <<>>, NoAlert)
    /\ UNCHANGED <<isRegister, location, portalVars, inflight, listVars,
                   auditVars, creatorVars,
                   historyVars>>

\* login(): /users/me answered, the user is stored; handleSubmit navigates to '/'.
LoginResolve(k) ==
    /\ k \in 1..Len(logins)
    /\ logins[k].mode = "login"
    /\ logins[k].stage = "user"
    /\ localStorage' = [localStorage EXCEPT
                          !.user = Some(JSONstringify(logins[k].user))]
    /\ location' = [location EXCEPT !.hash = "/"]
    /\ logins' = RemoveAt(logins, k)
    /\ lastOp' = OpOn("LoginResolve", logins[k], <<>>, NoAlert)
    /\ UNCHANGED <<isRegister, portalVars, inflight, listVars, auditVars,
                   creatorVars,
                   historyVars>>

\* A failed submission that leaves the login view for '/'.
SubmitReject_Navigates(k) ==
    /\ k \in 1..Len(logins)
    /\ \E detail \in ErrorDetails :
         lastOp' = OpOn("SubmitReject", logins[k], <<>>, ErrorAlert(detail))
    /\ location' = [location EXCEPT !.hash = "/"]
    /\ logins' = RemoveAt(logins, k)
    /\ UNCHANGED <<isRegister, localStorage, portalVars, inflight,
                   listVars, auditVars, creatorVars,
                   historyVars>>

\* register() or either request of login() failed: handleSubmit's catch alerts.
SubmitReject(k) ==
    /\ k \in 1..Len(logins)
    /\ \E detail \in ErrorDetails :
         lastOp' = OpOn("SubmitReject", logins[k], <<>>, ErrorAlert(detail))
    /\ logins' = RemoveAt(logins, k)
    /\ UNCHANGED <<isRegister, location, localStorage, portalVars, inflight,
                   listVars, auditVars, creatorVars,
                   historyVars>>

\* logout(): both keys removed, then the document at path /login is loaded, which
\* ends every handler of the page that was open.
logout ==
    /\ localStorage' = LoggedOut
    /\ location' = [pathname |-> "/login", hash |-> ""]
    /\ logins' = <<>>
    /\ isRegister' = FALSE
    /\ lastOp' = Op("logout", <<>>, NoAlert)
    /\ UNCHANGED <<portalVars, inflight, listVars, auditVars, creatorVars,
                   historyVars>>

(***************************************************************************)
(* Specifications.                                                         *)
(***************************************************************************)
\* The student portal, opened in a browser whose storage holds any session.
Init ==
    /\ InitPortal
    /\ InitList
    /\ InitAudit
    /\ InitCreator
    /\ InitLogin
    /\ localStorage \in SessionStates
    /\ lastOp = Op("init", <<>>, NoAlert)

Next ==
    \/ \E value \in IdInputs : setAssignmentId(value)
    \/ handleLoadAssignment
    \/ \E request \in inflight : LoadResolve(request)
    \/ \E request \in inflight : LoadReject(request)
    \/ AnswerInput
    \/ handleSubmit
    \/ \E request \in inflight : GradeResolve(request)
    \/ \E request \in inflight : GradeReject(request)
    \/ Exit
    \/ DismissFeedback
    \/ BackToDashboard

Spec == Init /\ [][Next]_vars

\* A grading request that was sent is answered or fails: its promise settles.
GradeSettle ==
    \E request \in inflight : GradeResolve(request) \/ GradeReject(request)

\* The student portal with grading requests that settle.
GradeSpec == Init /\ [][Next]_vars /\ WF_vars(GradeSettle)

\* The assignment list over sample collections.
SampleItems ==
    {[id |-> "s1", title |-> <<"H", "a">>, subject |-> <<"t">>, status |-> "Draft"],
     [id |-> "s2", title |-> <<"a">>, subject |-> <<"h", "A">>, status |-> "Published"],
     [id |-> "s3", title |-> <<>>, subject |-> <<"T", "a">>, status |-> "Archived"],
     [id |-> "s4", title |-> <<"A", "T">>, subject |-> <<>>, status |-> "Draft"]}

Collections == {MOCK_ASSIGNMENTS} \cup SeqsUpTo(SampleItems, MaxItems)

ListInit ==
    /\ InitPortal
    /\ InitAudit
    /\ InitCreator
    /\ InitLogin
    /\ localStorage = LoggedOut
    /\ assignments \in Collections
    /\ searchTerm = <<>>
    /\ statusFilter = "All"
    /\ lastOp = Op("init", <<>>, NoAlert)

ListNext ==
    \/ \E value \in SearchTerms : setSearchTerm(value)
    \/ \E value \in StatusOptions : setStatusFilter(value)
    \/ ClearFilters
    \/ DeleteButton

ListSpec == ListInit /\ [][ListNext]_vars

\* The assignments list with its audits, from the mock collection.
AuditInit ==
    /\ InitPortal
    /\ InitList
    /\ InitAudit
    /\ InitCreator
    /\ InitLogin
    /\ localStorage = LoggedOut
    /\ lastOp = Op("init", <<>>, NoAlert)

AuditNext ==
    \/ AuditButton
    \/ \E k \in 1..MaxAudits : AnalyzeResolve(k)
    \/ \E k \in 1..MaxAudits : AnalyzeReject(k)
    \/ DismissAnalysis
    \/ \E value \in StatusOptions : setStatusFilter(value)
    \/ DeleteButton

AuditSpec == AuditInit /\ [][AuditNext]_vars

\* The assignment creator of pages/AssignmentCreator.tsx.
CreatorInit ==
    /\ InitPortal
    /\ InitList
    /\ InitAudit
    /\ InitCreator
    /\ InitLogin
    /\ localStorage = LoggedOut
    /\ lastOp = Op("init", <<>>, NoAlert)

CreatorNext ==
    \/ \E value \in Topics : setTopic(value)
    \/ \E value \in AssignmentType : setType(value)
    \/ \E value \in Difficulty : setDifficulty(value)
    \/ GenerateButton
    \/ \E request \in inflight : GenerateResolve(request)
    \/ \E request \in inflight : GenerateReject(request)

CreatorSpec == CreatorInit /\ [][CreatorNext]_vars

\* The assignment creator of part_001, which saves what it generated; the
\* difficulty stays the one selected initially.
SaveInit ==
    /\ InitPortal
    /\ InitList
    /\ InitAudit
    /\ InitCreator_part001
    /\ InitLogin
    /\ localStorage = LoggedOut
    /\ lastOp = Op("init", <<>>, NoAlert)

SaveNext ==
    \/ \E value \in TopicInputs : setTopic(value)
    \/ \E value \in TypeOptions : setType(value)
    \/ GenerateButton_part001
    \/ \E request \in inflight : GenerateSettle_part001(request)
    \/ handleSave
    \/ \E request \in inflight : SaveResolve(request)
    \/ \E request \in inflight : SaveReject(request)

SaveSpec == SaveInit /\ [][SaveNext]_vars

\* The login view and the session in localStorage.
AuthInit ==
    /\ InitPortal
    /\ InitList
    /\ InitAudit
    /\ InitCreator
    /\ InitLogin
    /\ localStorage = LoggedOut
    /\ lastOp = Op("init", <<>>, NoAlert)

AuthNext ==
    \/ ToggleRegister
    \/ OpenLogin
    \/ \E path \in PathInputs : OpenPath(path)
    \/ \E u \in Users : Login_handleSubmit(u)
    \/ \E k \in 1..MaxLogins : RegisterResolve(k)
    \/ \E k \in 1..MaxLogins : LoginTokenResolve(k)
    \/ \E k \in 1..MaxLogins : LoginResolve(k)
    \/ \E k \in 1..MaxLogins : SubmitReject(k)
    \/ logout

AuthSpec == AuthInit /\ [][AuthNext]_vars

(***************************************************************************)
(* Properties of the student portal (specification Spec).                  *)
(***************************************************************************)
QuestionIds(data) == {data.questions[i].id : i \in 1..Len(data.questions)}

KeySet(obj) == {obj[i].key : i \in 1..Len(obj)}

SentByLast(name) == lastOp.op = name /\ lastOp.sent # <<>>

\* C1: a successful load of an assignment with N >= 0 questions leaves an
\* Answer Map of exactly N keys, one per question identifier, every value the
\* empty string, and the controller in step 2 with no alert.
C1_LoadSeedsAnswers ==
    lastOp.op = "LoadResolve" =>
        /\ step = 2
        /\ lastOp.alert = NoAlert
        /\ assignmentData # Null
        /\ Len(answers) = Len(assignmentData[1].questions)
        /\ \A i \in 1..Len(assignmentData[1].questions) :
             Cardinality({j \in 1..Len(answers) :
                answers[j].key = assignmentData[1].questions[i].id}) = 1
        /\ \A j \in 1..Len(answers) : answers[j].value = ""

\* An assignment without questions has just been loaded.
C1_Witness ==
    /\ lastOp.op = "LoadResolve"
    /\ step = 2
    /\ assignmentData # Null
    /\ assignmentData[1].questions = <<>>
    /\ answers = EmptyObject

\* C2: handleSubmit with no user record in the storage sends no request and
\* leaves step, assignmentId, assignmentData, answers, feedback and loading
\* as they were.
C2_SubmitWithoutUser ==
    [][(lastOp'.op = "handleSubmit" /\ getCurrentUser = Null) =>
          /\ lastOp'.sent = <<>>
          /\ inflight' = inflight
          /\ step' = step
          /\ assignmentId' = assignmentId
          /\ assignmentData' = assignmentData
          /\ answers' = answers
          /\ feedback' = feedback
          /\ loading' = loading]_vars

\* Submit was pressed on answered questions with nobody logged in.
C2_Witness ==
    /\ lastOp.op = "handleSubmit"
    /\ getCurrentUser = Null
    /\ lastOp.alert = "Please login first"
    /\ \E j \in 1..Len(answers) : answers[j].value # ""

\* One entry per question of the assignment, in question order.
ExpectedSubmission(data, ans) ==
    Join([i \in 1..Len(data.questions) |->
            "Q" \o ToString(i) \o ": " \o ObjectGet(ans, data.questions[i].id)],
         "\n\n")

\* C5: the text sent for grading is "Q<i>: <answer>" for i = 1..N joined by
\* a blank line, the i-th entry carrying the answer to the i-th question of
\* the loaded assignment.
C5_SubmissionInQuestionOrder ==
    SentByLast("handleSubmit") =>
        lastOp.sent[1].body.answer_text
            = ExpectedSubmission(assignmentData[1], answers)

\* C6: a submit by an authenticated user sends exactly one grading request,
\* with the identifier of the loaded assignment, the user's id and the
\* flattened Answer Map.
C6_GradeRequestBody ==
    SentByLast("handleSubmit") =>
        /\ Len(lastOp.sent) = 1
        /\ lastOp.sent[1].kind = "autoGradeSubmission"
        /\ lastOp.sent[1].body.assignment_id = assignmentData[1].id
        /\ getCurrentUser # Null
        /\ lastOp.sent[1].body.student_id = getCurrentUser[1].id
        /\ lastOp.sent[1].body.answer_text = formattedSubmission(answers)

\* C7: step 1 becomes step 2 only by a fulfilled getAssignment; a rejected
\* getAssignment and an empty identifier leave the controller in step 1 with
\* an alert and with assignment data and Answer Map as they were, and an
\* empty identifier sends no request.
C7_LoadTransitions ==
    [][/\ (step = 1 /\ step' = 2) => lastOp'.op = "LoadResolve"
       /\ lastOp'.op = "LoadReject" =>
            /\ step = 1 /\ step' = 1
            /\ lastOp'.alert # NoAlert
            /\ assignmentData' = assignmentData
            /\ answers' = answers
       /\ (lastOp'.op = "handleLoadAssignment" /\ assignmentId = <<>>) =>
            /\ step = 1 /\ step' = 1
            /\ lastOp'.alert # NoAlert
            /\ lastOp'.sent = <<>>
            /\ inflight' = inflight
            /\ assignmentData' = assignmentData
            /\ answers' = answers]_vars

\* A load was rejected while an earlier assignment and its answers are held.
C7_Witness ==
    /\ lastOp.op = "LoadReject"
    /\ step = 1
    /\ assignmentData # Null
    /\ \E j \in 1..Len(answers) : answers[j].value # ""

\* C8: loading assignment B after assignment A was loaded and answered leaves
\* an Answer Map whose keys are exactly B's question identifiers, all empty:
\* no key and no answer of A survives.
C8_ReloadReplacesAnswers ==
    (/\ lastOp.op = "LoadResolve"
     /\ lastOp.before[1].assignmentData # Null
     /\ lastOp.before[1].assignmentData[1].id # assignmentData[1].id) =>
        /\ KeySet(answers) = QuestionIds(assignmentData[1])
        /\ Len(answers) = Cardinality(QuestionIds(assignmentData[1]))
        /\ \A j \in 1..Len(answers) : answers[j].value = ""
        /\ \A k \in KeySet(lastOp.before[1].answers)
                    \ QuestionIds(assignmentData[1]) : ~HasOwn(answers, k)

\* B has been loaded over an answered A that shares a question identifier
\* with it and has one that B lacks.
C8_Witness ==
    /\ lastOp.op = "LoadResolve"
    /\ lastOp.before[1].assignmentData # Null
    /\ lastOp.before[1].assignmentData[1].id # assignmentData[1].id
    /\ \E j \in 1..Len(lastOp.before[1].answers) :
         /\ lastOp.before[1].answers[j].value # ""
         /\ lastOp.before[1].answers[j].key \in QuestionIds(assignmentData[1])
    /\ KeySet(lastOp.before[1].answers) \ QuestionIds(assignmentData[1]) # {}

\* C9: in step 2 the keys of the Answer Map are the question identifiers of
\* the loaded assignment; handleAnswerChange keeps the keys, and within step 2
\* only a fulfilled load changes them.
C9_AnswerKeys ==
    /\ [](step = 2 => /\ assignmentData # Null
                      /\ KeySet(answers) = QuestionIds(assignmentData[1]))
    /\ [][/\ lastOp'.op = "handleAnswerChange" =>
                ObjectKeys(answers') = ObjectKeys(answers)
          /\ (step' = 2 /\ ObjectKeys(answers') # ObjectKeys(answers)) =>
                lastOp'.op = "LoadResolve"]_vars

\* An answer has just been entered in step 2.
C9_Witness ==
    /\ lastOp.op = "handleAnswerChange"
    /\ step = 2
    /\ \E j \in 1..Len(answers) : answers[j].value # ""

\* C10: the reset of the grading report returns the controller to step 1
\* with identifier, assignment data, Answer Map, feedback and loading flag at
\* their initial values, and sends no request.
C10_ResetRestoresInitial ==
    lastOp.op = "BackToDashboard" =>
        /\ InitPortal
        /\ lastOp.sent = <<>>

\* The report was reset.
C10_Witness ==
    /\ lastOp.op = "BackToDashboard"
    /\ step = 1

(***************************************************************************)
(* Properties of the assignment list (specification ListSpec).             *)
(***************************************************************************)
\* c and d are the same character up to the case of a Basic Latin letter.
SameLetter(c, d) ==
    \/ c = d
    \/ \E k \in 1..Len(UpperCase) : {c, d} = {UpperCase[k], LowerCase[k]}

\* t occurs in s, letters compared without regard to case.
OccursIn(t, s) ==
    \E i \in 0..Len(s) :
        /\ i + Len(t) <= Len(s)
        /\ \A j \in 1..Len(t) : SameLetter(s[i + j], t[j])

Shown(a) ==
    /\ OccursIn(searchTerm, a.title) \/ OccursIn(searchTerm, a.subject)
    /\ statusFilter = "All" \/ a.status = statusFilter

ShownPositions == {i \in 1..Len(assignments) : Shown(assignments[i])}

\* C3: the filtered view is the sub-sequence, in the original order, of the
\* items whose title or subject contains the search text regardless of case
\* and whose status is the status filter, or any status under "All".
C3_FilteredView ==
    /\ Len(filteredAssignments) = Cardinality(ShownPositions)
    /\ \A k \in 1..Len(filteredAssignments) :
         \E i \in ShownPositions :
            /\ Cardinality({j \in ShownPositions : j <= i}) = k
            /\ filteredAssignments[k] = assignments[i]
    /\ statusFilter # "All" =>
         \A k \in 1..Len(filteredAssignments) :
            filteredAssignments[k].status = statusFilter

\* A search text with a capital letter and a status filter show some items
\* and hide others.
C3_Witness ==
    /\ statusFilter = "Draft"
    /\ searchTerm # <<>>
    /\ searchTerm # toLowerCase(searchTerm)
    /\ Len(filteredAssignments) \in 1..(Len(assignments) - 1)

\* C4: with empty search text and status filter "All" the view is the whole
\* collection; changing the search text or the status filter, or clearing the
\* filters, leaves the collection alone, and after "Clear filters" the view
\* is the collection.
C4_ClearFilters ==
    /\ []((searchTerm = <<>> /\ statusFilter = "All") =>
            filteredAssignments = assignments)
    /\ [][/\ lastOp'.op \in {"setSearchTerm", "setStatusFilter", "ClearFilters"} =>
                assignments' = assignments
          /\ lastOp'.op = "ClearFilters" =>
                FilterAssignments(assignments', searchTerm', statusFilter')
                    = assignments]_vars

\* The filters that hid every item of a collection were cleared.
C4_Witness ==
    /\ lastOp.op = "ClearFilters"
    /\ assignments # <<>>
    /\ filteredAssignments = assignments

(***************************************************************************)
(* Properties of the service fallbacks and of the audit.                   *)
(***************************************************************************)
GenerateInFlight == \E request \in inflight : request.kind = "generateContent"

\* C11: a failed generation request raises nothing in handleGenerate: the
\* preview becomes the empty sequence without an alert, and every generation
\* that settled, answered or failed, has cleared the loading flag, which is
\* set only while a request is in flight.
C11_GenerateNeverRaises ==
    /\ lastOp.op = "GenerateReject" =>
           /\ generatedQuestions = <<>>
           /\ hasGenerated
           /\ lastOp.alert = NoAlert
    /\ lastOp.op \in {"GenerateResolve", "GenerateReject"} => ~isLoading
    /\ isLoading => GenerateInFlight

C11_Witness ==
    /\ lastOp.op = "GenerateReject"
    /\ lastOp.arg[1].body.topic = <<"T">>

\* C12: a failed grading request raises nothing in handleSubmit: the feedback
\* stored is the sentinel of score 0 with the fallback text, stored without an
\* alert and with loading cleared, as the result of an answered request is.
C12_GradeNeverRaises ==
    /\ lastOp.op = "GradeReject" =>
           /\ feedback = Some(GradeFallback)
           /\ feedback[1].score = 0
           /\ feedback[1].feedback = "Error connecting to grading service."
    /\ lastOp.op \in {"GradeResolve", "GradeReject"} =>
           /\ feedback # Null
           /\ ~loading
           /\ lastOp.alert = NoAlert

C12_Witness ==
    /\ lastOp.op = "GradeReject"
    /\ feedback = Some(GradeFallback)

\* C13: a failed audit request raises nothing in handleAnalyze: the fallback
\* text is stored as the audit result keyed by the audited item's id, and every
\* audit that settled leaves a result for its item, shown under the item when
\* the item is listed.
C13_AuditNeverRaises ==
    /\ lastOp.op = "AnalyzeReject" =>
           /\ analysisResult =
                  Some([id |-> lastOp.arg[1].id, text |-> AuditFallback])
           /\ lastOp.alert = NoAlert
    /\ lastOp.op \in {"AnalyzeResolve", "AnalyzeReject"} =>
           /\ analysisResult # Null
           /\ analysisResult[1].id = lastOp.arg[1].id
           /\ \A i \in 1..Len(filteredAssignments) :
                  filteredAssignments[i].id = lastOp.arg[1].id
                      => PanelShown(filteredAssignments[i].id)

C13_Witness ==
    /\ lastOp.op = "AnalyzeReject"
    /\ PanelShown(lastOp.arg[1].id)

\* C14: an audit started while others are in flight cancels none of them, one
\* result at most is held, and after each completion the result held is the
\* one of the audit that just completed, keyed by its item's id, also when it
\* completes ahead of an audit started earlier.
C14_OverlappingAudits ==
    /\ lastOp.op = "handleAnalyze" =>
           audits = Append(lastOp.before[1], lastOp.arg[1])
    /\ Len(analysisResult) <= 1
    /\ lastOp.op = "AnalyzeResolve" =>
           /\ analysisResult # Null
           /\ analysisResult[1].id = lastOp.arg[1].id
           /\ analysisResult[1].text \in AuditTexts(lastOp.arg[1].id)
    /\ lastOp.op = "AnalyzeReject" =>
           analysisResult = Some([id |-> lastOp.arg[1].id, text |-> AuditFallback])

\* The second audit started has answered while the first is still in flight.
C14_Witness ==
    /\ lastOp.op = "AnalyzeResolve"
    /\ lastOp.arg[1].position = 2
    /\ audits # <<>>
    /\ audits[1] # lastOp.arg[1].id

\* C15: while an audit request on an item is in flight, the id marked as being
\* audited is the id of that item.
C15_AuditingWhileInFlight ==
    \A k \in 1..Len(audits) : analyzingId = Some(audits[k])

(***************************************************************************)
(* Properties of deleting, of the session and of saving.                   *)
(***************************************************************************)
\* The positions of items whose id is not id.
KeptPositions(items, id) == {i \in 1..Len(items) : items[i].id # id}

\* C16: a confirmed delete of id leaves exactly the items of another id, in
\* the order they had; a declined delete leaves the collection as it was; no
\* request is sent in either case.
C16_DeleteConfirmed ==
    [][lastOp'.op = "deleteAssignment" =>
         LET id == lastOp'.arg[1].id
             kept == KeptPositions(assignments, id)
         IN  /\ lastOp'.arg[1].confirmed =>
                    /\ Len(assignments') = Cardinality(kept)
                    /\ \A i \in kept :
                           assignments'[Cardinality({j \in kept : j <= i})]
                               = assignments[i]
             /\ ~lastOp'.arg[1].confirmed => assignments' = assignments
             /\ lastOp'.sent = <<>>
             /\ inflight' = inflight]_vars

\* A confirmed delete that left other items behind.
C16_Witness ==
    /\ lastOp.op = "deleteAssignment"
    /\ lastOp.arg[1].confirmed
    /\ assignments # <<>>
    /\ KeptPositions(assignments, lastOp.arg[1].id) = 1..Len(assignments)

\* C17: after a login that succeeded, token and user are stored and
\* getCurrentUser returns that user; after logout both keys are gone,
\* getCurrentUser returns null and the login view is the one rendered.
C17_SessionLifecycle ==
    /\ lastOp.op = "LoginResolve" =>
           /\ localStorage.token # Null
           /\ localStorage.user # Null
           /\ getCurrentUser = Some(lastOp.arg[1].user)
    /\ lastOp.op = "logout" =>
           /\ localStorage = LoggedOut
           /\ getCurrentUser = Null
           /\ View = "Login"

LoginViewSteps ==
    {"Login.handleSubmit", "ToggleRegister", "RegisterResolve",
     "LoginTokenResolve", "SubmitReject"}

\* C18: in the login view a failed login or registration alerts and leaves the
\* location as it is; a successful registration alerts, switches to login mode
\* and leaves storage and location as they are; of all steps of the view only
\* the successful login changes the location, and it goes to '/'.
C18_LoginViewOutcomes ==
    [][/\ lastOp'.op = "SubmitReject" =>
              /\ lastOp'.alert # NoAlert
              /\ location' = location
       /\ lastOp'.op = "RegisterResolve" =>
              /\ lastOp'.alert = "Registered! Now log in."
              /\ ~isRegister'
              /\ localStorage' = localStorage
              /\ location' = location
       /\ lastOp'.op \in LoginViewSteps => location' = location
       /\ lastOp'.op = "LoginResolve" =>
              location' = [location EXCEPT !.hash = "/"]]_vars

\* A login failed at /users/me, with the login view still open.
C18_Witness ==
    /\ lastOp.op = "SubmitReject"
    /\ lastOp.arg[1].stage = "user"
    /\ View = "Login"

SaveRequests == {request \in inflight : request.kind = "saveAssignment"}

\* C19: handleSave sends nothing for an empty preview and otherwise one
\* assignment whose questions are the preview; a save that succeeded surfaces
\* the id of the assignment it submitted; a save that failed alerts and the id
\* surfaced is not the one of the failed assignment.
C19_SaveSurfacesSubmittedId ==
    /\ lastOp.op = "handleSave" =>
           IF generatedQuestions = <<>>
           THEN lastOp.sent = <<>>
           ELSE /\ Len(lastOp.sent) = 1
                /\ lastOp.sent[1].kind = "saveAssignment"
                /\ lastOp.sent[1].body.questions = generatedQuestions
    /\ lastOp.op = "SaveResolve" =>
           /\ savedId = Some(lastOp.arg[1].body.id)
           /\ lastOp.alert = "Assignment Saved Successfully!"
    /\ lastOp.op = "SaveReject" =>
           /\ lastOp.alert = "Error saving assignment"
           /\ savedId # Some(lastOp.arg[1].body.id)

\* A save failed after an earlier one had succeeded.
C19_Witness ==
    /\ lastOp.op = "SaveReject"
    /\ savedId # Null

\* C20: the ids of the assignments submitted so far are pairwise different,
\* and a save sends the id it has just generated.
C20_FreshIds ==
    /\ \A i, j \in 1..Len(submitted) : i # j => submitted[i] # submitted[j]
    /\ \A r1, r2 \in SaveRequests : r1 # r2 => r1.body.id # r2.body.id
    /\ (lastOp.op = "handleSave" /\ lastOp.sent # <<>>) =>
           lastOp.sent[1].body.id = submitted[Len(submitted)]

\* The same preview saved twice, both requests still in flight.
C20_Witness ==
    \E r1, r2 \in SaveRequests :
        /\ r1 # r2
        /\ r1.body.questions = r2.body.questions
        /\ r1.body.title = r2.body.title

(***************************************************************************)
(* Properties of generating (specification CreatorSpec).                   *)
(***************************************************************************)
\* C21: a generation that was answered leaves as preview exactly one of the
\* answers to its own request, so that no question of the preview it found
\* remains unless the answer holds it; a generation that failed leaves the
\* preview empty, with no alert and with the flags an answered one leaves.
C21_GenerateReplacesPreview ==
    /\ lastOp.op = "GenerateResolve" =>
           /\ generatedQuestions \in GenerateResponses(lastOp.arg[1].body)
           /\ \A i \in 1..Len(generatedQuestions) :
                  /\ generatedQuestions[i].text = lastOp.arg[1].body.topic
                  /\ generatedQuestions[i].type = lastOp.arg[1].body.type
    /\ lastOp.op = "GenerateReject" =>
           /\ generatedQuestions = <<>>
           /\ lastOp.alert = NoAlert
           /\ hasGenerated /\ ~isLoading

\* A later generation answered with questions other than those it found.
C21_Witness ==
    /\ lastOp.op = "GenerateResolve"
    /\ lastOp.before[1] # <<>>
    /\ Range(lastOp.before[1]) \cap Range(generatedQuestions) = {}

GenerateRequests == {request \in inflight : request.kind = "generateContent"}

\* C22 as stated: while a generation request is in flight and a topic is
\* entered, a click on Generate is taken and starts a second request, and an
\* answer that arrives is applied to the preview.
C22_OverlappingGenerations ==
    /\ (GenerateInFlight /\ Trim(topic) # <<>>) => ENABLED GenerateButton
    /\ lastOp.op = "GenerateResolve" =>
           generatedQuestions \in GenerateResponses(lastOp.arg[1].body)

\* C22 amended: a request in flight is not cancelled, but while it is in
\* flight the Generate button takes no click, so one generation request at
\* most is in flight and the preview after an answer is the answer to the one
\* request that was sent.
C22_OneGenerationInFlight ==
    /\ GenerateInFlight => ~ENABLED GenerateButton
    /\ Cardinality(GenerateRequests) <= 1
    /\ isLoading <=> GenerateInFlight
    /\ lastOp.op = "GenerateResolve" =>
           /\ GenerateRequests = {}
           /\ generatedQuestions \in GenerateResponses(lastOp.arg[1].body)

\* A request is in flight and the topic entered is now another one.
C22_Witness ==
    /\ Trim(topic) # <<>>
    /\ \E request \in GenerateRequests : request.body.topic # topic

(***************************************************************************)
(* Properties of the student portal's requests (Spec, GradeSpec).          *)
(***************************************************************************)
GradePending == \E request \in inflight : request.kind = "autoGradeSubmission"

Graded == ~GradePending /\ feedback # Null /\ ~loading

\* C23: a grading request that was sent and settles leads to a state with a
\* feedback held and loading false, unless the page was reloaded meanwhile; as
\* long as the request has not settled, loading is true and no step sends a
\* request.
C23_GradingSettles ==
    /\ GradePending ~> (Graded \/ lastOp.op = "BackToDashboard")
    /\ [](GradePending => loading)
    /\ [][(GradePending /\ GradePending') =>
              /\ loading'
              /\ lastOp'.sent = <<>>
              /\ inflight' = inflight]_vars

\* The student left the quiz while the grading request is still pending.
C23_Witness ==
    /\ GradePending
    /\ loading
    /\ lastOp.op = "Exit"

\* C25: in the student portal one request at most, a load or a grading, is in
\* flight, and the loading flag is true exactly while one is.
C25_OneRequestInFlight ==
    /\ Cardinality(inflight) <= 1
    /\ loading <=> inflight # {}

\* The identifier is edited while the load is in flight and Start is disabled.
C25_Witness ==
    /\ lastOp.op = "setAssignmentId"
    /\ loading
    /\ \E request \in inflight : request.kind = "getAssignment"
    /\ ~ENABLED handleLoadAssignment

\* C26: in step 2 a feedback that is held was stored while the assignment now
\* on display was the one on display.
C26_FeedbackOfLoadedAssignment ==
    (step = 2 /\ assignmentData # Null /\ feedback # Null) =>
        gradedFor = assignmentData

\* C27: in step 2 the identifier a submit would send, the text of the
\* identifier input, is the identifier the assignment on display was
\* fetched with.
C27_SubmitIdIsLoadedId ==
    (step = 2 /\ assignmentData # Null) => assignmentId = assignmentData[1].id

(***************************************************************************)
(* Properties of the routes and of the session (specification AuthSpec).   *)
(***************************************************************************)
\* C24: a route of MainLayout is rendered only while the session store holds
\* a user, and opening any path that is no route ends at the login view.
C24_ProtectedRoutes ==
    /\ View = "MainLayout" => getCurrentUser # Null
    /\ (lastOp.op = "OpenPath" /\ lastOp.arg[1] \notin MainRoutes) =>
           View = "Login"

\* C28: once no login or registration is pending, the storage holds a token
\* exactly if it holds a user record.
C28_TokenIffUser ==
    logins = <<>> => (localStorage.token # Null <=> localStorage.user # Null)

(***************************************************************************)
(* Properties of preview and save (specification SaveSpec).                *)
(***************************************************************************)
\* C29: whenever an identifier is surfaced, the questions of the preview are
\* the questions that were saved under that identifier.
C29_SavedIdMatchesPreview ==
    savedId # Null => savedQuestions = Some(generatedQuestions)

\* C30: an assignment that handleSave submits carries the topic, the type and
\* the difficulty of the generation request that produced its questions.
C30_SavedConfigIsGeneratedConfig ==
    (lastOp.op = "handleSave" /\ lastOp.sent # <<>>) =>
        /\ previewFrom # Null
        /\ lastOp.sent[1].body.topic = previewFrom[1].topic
        /\ lastOp.sent[1].body.type = previewFrom[1].type
        /\ lastOp.sent[1].body.difficulty = previewFrom[1].difficulty

====
